---- MODULE Spec2Model ----
(***************************************************************************)
(* State-machine model of testGame.cpp: the dungeon generator, the grid    *)
(* walkability query, the Player movement / input-timing machine and the   *)
(* part of main()'s event loop that drives them.                           *)
(*                                                                         *)
(* Numbers.  Times are counted in ticks of 10 ms (deltaTime is a whole     *)
(* number of milliseconds divided by 1000).  moveProgress is counted in    *)
(* hundredths, so that MOVE_SPEED * deltaTime is the integer 8 * ticks and *)
(* 1.0f is ProgressOne.  Pixel coordinates are counted in units of         *)
(* 1 / PixelScale pixel with PixelScale = ProgressOne^3, which makes the   *)
(* cubic ease-out 1 - (1 - t)^3 exact.  The arithmetic is the exact        *)
(* arithmetic of the source's formulas; float rounding is not modelled.    *)
(***************************************************************************)
EXTENDS Integers, Sequences, FiniteSets

(***************************************************************************)
(* Program constants (lines 9-18 of the source).                           *)
(***************************************************************************)
SCREEN_WIDTH == 800
SCREEN_HEIGHT == 600
TILE_SIZE == 40
PLAYER_SIZE == 30
MOVE_SPEED == 8
INPUT_BUFFER_TIME == 15
ProgressOne == 100
PixelScale == ProgressOne * ProgressOne * ProgressOne

(***************************************************************************)
(* Bounds of the model.  The grid, the room sizes, the room count and the  *)
(* attempt cap are scaled down from 40x30, 4..9, 8..12 and 100.            *)
(***************************************************************************)
DUNGEON_WIDTH == 9
DUNGEON_HEIGHT == 9
MinRoomSize == 2
MaxRoomSize == 2
MinRooms == 2
RoomsSpread == 2
MaxAttempts == 3
MaxHold == 16

\* enum TileType
WALL == 1
FLOOR == 0
CORRIDOR == 2

\* enum Direction (bit flags)
NONE == 0
UP == 1
DOWN == 2
LEFT == 4
RIGHT == 8
UP_LEFT == UP + LEFT
UP_RIGHT == UP + RIGHT
DOWN_LEFT == DOWN + LEFT
DOWN_RIGHT == DOWN + RIGHT

\* dir & flag, for a single-bit flag
HasBit(dir, flag) == (dir \div flag) % 2 = 1

Min(a, b) == IF a < b THEN a ELSE b
Max(a, b) == IF a > b THEN a ELSE b

UP_DOWN == UP + DOWN

\* The frame deltas (0 ms, 50 ms, a 200 ms stall) and the keyboard states the
\* event loop is fed.
Deltas == {0, 5, 20}
Inputs == {NONE, RIGHT, UP_LEFT, UP_DOWN}

\* The held key and the 0.02 s frame of the hold-to-repeat scenarios.
HeldDirection == RIGHT
HeldDelta == 2

VARIABLES gameState, pc, dungeon, rooms, numRooms, attempts, player, camera

vars == <<gameState, pc, dungeon, rooms, numRooms, attempts, player, camera>>

Cols == 0 .. (DUNGEON_WIDTH - 1)
Rows == 0 .. (DUNGEON_HEIGHT - 1)

(***************************************************************************)
(* Camera                                                                  *)
(***************************************************************************)
\* Camera::Camera(); width and height stay SCREEN_WIDTH and SCREEN_HEIGHT
NewCamera == [x |-> 0, y |-> 0]

\* Camera::followPlayer without the clamp to the far edge of the dungeon
followPlayerLowClampOnly(cam, playerX, playerY, dungeonPixelWidth, dungeonPixelHeight) ==
    LET centredX == playerX + (PLAYER_SIZE \div 2 - SCREEN_WIDTH \div 2) * PixelScale
        centredY == playerY + (PLAYER_SIZE \div 2 - SCREEN_HEIGHT \div 2) * PixelScale IN
    [x |-> IF centredX < 0 THEN 0 ELSE centredX,
     y |-> IF centredY < 0 THEN 0 ELSE centredY]

\* Camera::followPlayer; the player position and the offset in pixel units,
\* the dungeon size in whole pixels
followPlayer(cam, playerX, playerY, dungeonPixelWidth, dungeonPixelHeight) ==
    LET centredX == playerX + (PLAYER_SIZE \div 2 - SCREEN_WIDTH \div 2) * PixelScale
        centredY == playerY + (PLAYER_SIZE \div 2 - SCREEN_HEIGHT \div 2) * PixelScale
        lowX == IF centredX < 0 THEN 0 ELSE centredX
        lowY == IF centredY < 0 THEN 0 ELSE centredY
        maxX == (dungeonPixelWidth - SCREEN_WIDTH) * PixelScale
        maxY == (dungeonPixelHeight - SCREEN_HEIGHT) * PixelScale IN
    [x |-> IF lowX > maxX THEN maxX ELSE lowX,
     y |-> IF lowY > maxY THEN maxY ELSE lowY]

(***************************************************************************)
(* Player                                                                  *)
(***************************************************************************)
\* cell index * tile size + centring offset, in pixel units
CanonicalPixel(cell) == (cell * TILE_SIZE + (TILE_SIZE - PLAYER_SIZE) \div 2) * PixelScale

\* Player::Player()
NewPlayer ==
    [gridX |-> 0, gridY |-> 0, pixelX |-> 0, pixelY |-> 0,
     isMoving |-> FALSE, movingDirection |-> NONE, moveProgress |-> 0,
     targetGridX |-> 0, targetGridY |-> 0, lastInputDirection |-> NONE,
     inputHoldTime |-> 0, continuousMoveEnabled |-> FALSE]

\* setGridPosition leaving the target cell as it was
setGridPositionKeepingTarget(p, x, y) ==
    [p EXCEPT !.gridX = x, !.gridY = y,
              !.pixelX = CanonicalPixel(x), !.pixelY = CanonicalPixel(y)]

\* Player::setGridPosition
setGridPosition(p, x, y) ==
    [p EXCEPT !.gridX = x, !.gridY = y, !.targetGridX = x, !.targetGridY = y,
              !.pixelX = CanonicalPixel(x), !.pixelY = CanonicalPixel(y)]

\* Player::startMove
startMove(p, dir, destGridX, destGridY) ==
    [p EXCEPT !.isMoving = TRUE, !.movingDirection = dir, !.moveProgress = 0,
              !.targetGridX = destGridX, !.targetGridY = destGridY]

\* t = 1 - pow(1 - t, 3), scaled by PixelScale
EaseOutCubic(progress) ==
    PixelScale - (ProgressOne - progress) * (ProgressOne - progress) * (ProgressOne - progress)

\* start + (end - start) * t for canonical positions of two cells
Interpolate(fromCell, toCell, progress) ==
    CanonicalPixel(fromCell) + (toCell - fromCell) * TILE_SIZE * EaseOutCubic(progress)

\* updateMovement completing the move without clamping moveProgress
updateMovementUnclamped(p, dt) ==
    IF ~p.isMoving THEN p
    ELSE LET progress == p.moveProgress + MOVE_SPEED * dt IN
         IF progress >= ProgressOne
         THEN [p EXCEPT !.moveProgress = progress,
                        !.gridX = p.targetGridX, !.gridY = p.targetGridY,
                        !.pixelX = CanonicalPixel(p.targetGridX),
                        !.pixelY = CanonicalPixel(p.targetGridY),
                        !.isMoving = FALSE, !.movingDirection = NONE]
         ELSE [p EXCEPT !.moveProgress = progress,
                        !.pixelX = Interpolate(p.gridX, p.targetGridX, progress),
                        !.pixelY = Interpolate(p.gridY, p.targetGridY, progress)]

\* Player::updateMovement
updateMovement(p, dt) ==
    IF ~p.isMoving THEN p
    ELSE LET progress == p.moveProgress + MOVE_SPEED * dt IN
         IF progress >= ProgressOne
         THEN [p EXCEPT !.moveProgress = ProgressOne,
                        !.gridX = p.targetGridX, !.gridY = p.targetGridY,
                        !.pixelX = CanonicalPixel(p.targetGridX),
                        !.pixelY = CanonicalPixel(p.targetGridY),
                        !.isMoving = FALSE, !.movingDirection = NONE]
         ELSE [p EXCEPT !.moveProgress = progress,
                        !.pixelX = Interpolate(p.gridX, p.targetGridX, progress),
                        !.pixelY = Interpolate(p.gridY, p.targetGridY, progress)]

\* updateInputTiming latching only when the hold time exceeds the threshold
updateInputTimingStrict(p, currentInput, dt) ==
    IF currentInput = NONE
    THEN [p EXCEPT !.lastInputDirection = NONE, !.inputHoldTime = 0,
                   !.continuousMoveEnabled = FALSE]
    ELSE IF currentInput = p.lastInputDirection
    THEN LET held == Min(p.inputHoldTime + dt, MaxHold) IN
         [p EXCEPT !.inputHoldTime = held,
                   !.continuousMoveEnabled = (held > INPUT_BUFFER_TIME) \/ p.continuousMoveEnabled]
    ELSE [p EXCEPT !.lastInputDirection = currentInput, !.inputHoldTime = 0,
                   !.continuousMoveEnabled = FALSE]

\* Player::updateInputTiming.  inputHoldTime is only ever compared with
\* INPUT_BUFFER_TIME; the model stops counting it at MaxHold.
updateInputTiming(p, currentInput, dt) ==
    IF currentInput = NONE
    THEN [p EXCEPT !.lastInputDirection = NONE, !.inputHoldTime = 0,
                   !.continuousMoveEnabled = FALSE]
    ELSE IF currentInput = p.lastInputDirection
    THEN LET held == Min(p.inputHoldTime + dt, MaxHold) IN
         [p EXCEPT !.inputHoldTime = held,
                   !.continuousMoveEnabled = (held >= INPUT_BUFFER_TIME) \/ p.continuousMoveEnabled]
    ELSE [p EXCEPT !.lastInputDirection = currentInput, !.inputHoldTime = 0,
                   !.continuousMoveEnabled = FALSE]

\* Player::shouldAcceptInput
shouldAcceptInput(p) == ~p.isMoving \/ p.continuousMoveEnabled

(***************************************************************************)
(* Dungeon                                                                 *)
(***************************************************************************)
AllWalls == [y \in Rows |-> [x \in Cols |-> WALL]]

\* rand() % n, for rand() drawn from the set R
RandMod(R, n) == {r % n : r \in R}

\* Values of rand(): RandAll yields every residue of every modulus the
\* generator uses; RandFew yields the smallest and the largest residue of the
\* position moduli and both residues modulo 2.
RandAll == 0 .. (DUNGEON_WIDTH + DUNGEON_HEIGHT)
RandFew == {0, 9}

\* roomOverlaps testing the bare rectangles, the padding left out
roomOverlapsUnpadded(newRoom, existingRooms, padding) ==
    \E i \in 1 .. Len(existingRooms) :
        LET room == existingRooms[i] IN
        /\ newRoom.x < room.x + room.width
        /\ newRoom.x + newRoom.width > room.x
        /\ newRoom.y < room.y + room.height
        /\ newRoom.y + newRoom.height > room.y

\* roomOverlaps(newRoom, existingRooms, padding)
roomOverlaps(newRoom, existingRooms, padding) ==
    \E i \in 1 .. Len(existingRooms) :
        LET room == existingRooms[i] IN
        /\ newRoom.x < room.x + room.width + padding
        /\ newRoom.x + newRoom.width + padding > room.x
        /\ newRoom.y < room.y + room.height + padding
        /\ newRoom.y + newRoom.height + padding > room.y

\* carveRoom
carveRoom(d, room) ==
    [y \in Rows |-> [x \in Cols |->
        IF /\ y >= room.y /\ y < room.y + room.height
           /\ x >= room.x /\ x < room.x + room.width
        THEN FLOOR ELSE d[y][x]]]

\* carveHorizontalCorridor without the test that the cell is WALL
carveHorizontalCorridorOverwriting(d, x1, x2, y) ==
    LET startX == Min(x1, x2)
        endX == Max(x1, x2) IN
    [yy \in Rows |-> [xx \in Cols |->
        IF yy = y /\ xx >= startX /\ xx <= endX
        THEN CORRIDOR ELSE d[yy][xx]]]

\* carveHorizontalCorridor
carveHorizontalCorridor(d, x1, x2, y) ==
    LET startX == Min(x1, x2)
        endX == Max(x1, x2) IN
    [yy \in Rows |-> [xx \in Cols |->
        IF yy = y /\ xx >= startX /\ xx <= endX /\ d[yy][xx] = WALL
        THEN CORRIDOR ELSE d[yy][xx]]]

\* carveVerticalCorridor
carveVerticalCorridor(d, y1, y2, x) ==
    LET startY == Min(y1, y2)
        endY == Max(y1, y2) IN
    [yy \in Rows |-> [xx \in Cols |->
        IF xx = x /\ yy >= startY /\ yy <= endY /\ d[yy][xx] = WALL
        THEN CORRIDOR ELSE d[yy][xx]]]

\* carveLCorridor with both vertical segments in the previous room's column
carveLCorridorSameColumn(d, prevRoom, newRoom, elbow) ==
    LET prevCenterX == prevRoom.x + prevRoom.width \div 2
        prevCenterY == prevRoom.y + prevRoom.height \div 2
        newCenterX == newRoom.x + newRoom.width \div 2
        newCenterY == newRoom.y + newRoom.height \div 2 IN
    IF elbow = 0
    THEN carveVerticalCorridor(
             carveHorizontalCorridor(d, prevCenterX, newCenterX, prevCenterY),
             prevCenterY, newCenterY, prevCenterX)
    ELSE carveHorizontalCorridor(
             carveVerticalCorridor(d, prevCenterY, newCenterY, prevCenterX),
             prevCenterX, newCenterX, newCenterY)

\* the L-shaped corridor of generateDungeon, elbow = rand() % 2
carveLCorridor(d, prevRoom, newRoom, elbow) ==
    LET prevCenterX == prevRoom.x + prevRoom.width \div 2
        prevCenterY == prevRoom.y + prevRoom.height \div 2
        newCenterX == newRoom.x + newRoom.width \div 2
        newCenterY == newRoom.y + newRoom.height \div 2 IN
    IF elbow = 0
    THEN carveVerticalCorridor(
             carveHorizontalCorridor(d, prevCenterX, newCenterX, prevCenterY),
             prevCenterY, newCenterY, newCenterX)
    ELSE carveHorizontalCorridor(
             carveVerticalCorridor(d, prevCenterY, newCenterY, prevCenterX),
             prevCenterX, newCenterX, newCenterY)

\* isWalkable taking Floor cells only for walkable
isWalkableFloorOnly(d, gridX, gridY) ==
    IF gridX < 0 \/ gridX >= DUNGEON_WIDTH \/ gridY < 0 \/ gridY >= DUNGEON_HEIGHT
    THEN FALSE
    ELSE d[gridY][gridX] = FLOOR

\* isWalkable
isWalkable(d, gridX, gridY) ==
    IF gridX < 0 \/ gridX >= DUNGEON_WIDTH \/ gridY < 0 \/ gridY >= DUNGEON_HEIGHT
    THEN FALSE
    ELSE d[gridY][gridX] # WALL

\* the x of the target when a vertical bit takes the place of the
\* horizontal ones
TargetXUnlessVertical(dir, currentX) ==
    IF HasBit(dir, UP) \/ HasBit(dir, DOWN)
    THEN currentX
    ELSE currentX - (IF HasBit(dir, LEFT) THEN 1 ELSE 0) + (IF HasBit(dir, RIGHT) THEN 1 ELSE 0)

\* getTargetFromDirection
TargetX(dir, currentX) ==
    currentX - (IF HasBit(dir, LEFT) THEN 1 ELSE 0) + (IF HasBit(dir, RIGHT) THEN 1 ELSE 0)
\* the y of the target when UP is tested before DOWN and excludes it
TargetYUpFirst(dir, currentY) ==
    IF HasBit(dir, UP) THEN currentY - 1
    ELSE IF HasBit(dir, DOWN) THEN currentY + 1
    ELSE currentY

TargetY(dir, currentY) ==
    currentY - (IF HasBit(dir, UP) THEN 1 ELSE 0) + (IF HasBit(dir, DOWN) THEN 1 ELSE 0)

(***************************************************************************)
(* main(): the event loop                                                  *)
(***************************************************************************)
Init ==
    /\ gameState = "MAIN_MENU"
    /\ pc = "loop"
    /\ dungeon = AllWalls
    /\ rooms = <<>>
    /\ numRooms = 0
    /\ attempts = 0
    /\ player = NewPlayer
    /\ camera = NewCamera

\* generateDungeon sampling its target without the smallest room count
GenBeginTargetFromZero(R) ==
    /\ dungeon' = AllWalls
    /\ rooms' = <<>>
    /\ \E r \in RandMod(R, RoomsSpread) : numRooms' = r
    /\ attempts' = 0
    /\ pc' = "gen"

\* generateDungeon up to the head of its placement loop
GenBegin(R) ==
    /\ dungeon' = AllWalls
    /\ rooms' = <<>>
    /\ \E r \in RandMod(R, RoomsSpread) : numRooms' = MinRooms + r
    /\ attempts' = 0
    /\ pc' = "gen"

\* left click on "Start Dungeon" in the main menu
ClickStartDungeon(R) ==
    /\ pc = "loop"
    /\ gameState = "MAIN_MENU"
    /\ GenBegin(R)
    /\ UNCHANGED <<gameState, player, camera>>

\* left click on "New Dungeon" in the pause menu
ClickNewDungeon(R) ==
    /\ pc = "loop"
    /\ gameState = "PAUSED"
    /\ GenBegin(R)
    /\ UNCHANGED <<gameState, player, camera>>

\* the placement loop going on while the placed rooms reach the target
placementLoopContinuesInclusive(placed, target, tried) ==
    placed <= target /\ tried < MaxAttempts

\* the condition of the placement loop of generateDungeon
placementLoopContinues(placed, target, tried) ==
    placed < target /\ tried < MaxAttempts

\* attempts counted only for the rooms that were placed
countAttemptIfPlaced(tried, wasPlaced) ==
    IF wasPlaced THEN tried + 1 ELSE tried

\* attempts++ at the end of every iteration, placed or rejected
countAttempt(tried, wasPlaced) == tried + 1

\* the sampled room with its position counted from the edge of the grid
sampledRoomFromEdge(width, height, rx, ry) ==
    [x |-> rx, y |-> ry, width |-> width, height |-> height]

\* the room of one iteration: the size from generateRoom, the position one
\* cell away from the edge of the grid
sampledRoom(width, height, rx, ry) ==
    [x |-> 1 + rx, y |-> 1 + ry, width |-> width, height |-> height]

\* one iteration of the placement loop of generateDungeon
GenIterate(R) ==
    /\ pc = "gen"
    /\ placementLoopContinues(Len(rooms), numRooms, attempts)
    /\ \E rw \in RandMod(R, MaxRoomSize - MinRoomSize + 1),
          rh \in RandMod(R, MaxRoomSize - MinRoomSize + 1) :
        LET width == MinRoomSize + rw
            height == MinRoomSize + rh IN
        \E rx \in RandMod(R, DUNGEON_WIDTH - width - 2),
           ry \in RandMod(R, DUNGEON_HEIGHT - height - 2),
           elbow \in RandMod(R, 2) :
            LET newRoom == sampledRoom(width, height, rx, ry)
                wasPlaced == ~roomOverlaps(newRoom, rooms, 2) IN
            /\ IF wasPlaced
               THEN /\ dungeon' = (IF rooms # <<>>
                                   THEN carveLCorridor(carveRoom(dungeon, newRoom),
                                                       rooms[Len(rooms)], newRoom, elbow)
                                   ELSE carveRoom(dungeon, newRoom))
                    /\ rooms' = Append(rooms, newRoom)
               ELSE UNCHANGED <<dungeon, rooms>>
            /\ attempts' = countAttempt(attempts, wasPlaced)
    /\ UNCHANGED <<gameState, pc, numRooms, player, camera>>

\* the placement loop ends; the click handler spawns the player and plays
GenFinish ==
    /\ pc = "gen"
    /\ ~placementLoopContinues(Len(rooms), numRooms, attempts)
    /\ player' = (IF rooms # <<>>
                  THEN setGridPosition(player,
                                       rooms[1].x + rooms[1].width \div 2,
                                       rooms[1].y + rooms[1].height \div 2)
                  ELSE player)
    /\ gameState' = "PLAYING"
    /\ pc' = "loop"
    /\ UNCHANGED <<dungeon, rooms, numRooms, attempts, camera>>

\* left click on "Resume" in the pause menu
ClickResume ==
    /\ pc = "loop"
    /\ gameState = "PAUSED"
    /\ gameState' = "PLAYING"
    /\ UNCHANGED <<pc, dungeon, rooms, numRooms, attempts, player, camera>>

\* left click on "Main Menu" in the pause menu
ClickMainMenu ==
    /\ pc = "loop"
    /\ gameState = "PAUSED"
    /\ gameState' = "MAIN_MENU"
    /\ UNCHANGED <<pc, dungeon, rooms, numRooms, attempts, player, camera>>

\* SDLK_ESCAPE
KeyEscape ==
    /\ pc = "loop"
    /\ gameState \in {"PLAYING", "PAUSED"}
    /\ gameState' = (IF gameState = "PLAYING" THEN "PAUSED" ELSE "PLAYING")
    /\ UNCHANGED <<pc, dungeon, rooms, numRooms, attempts, player, camera>>

\* acceptInput starting the move without asking isWalkable
acceptInputUnchecked(p, d, currentInput) ==
    IF currentInput # NONE /\ shouldAcceptInput(p)
    THEN startMove(p, currentInput,
                   TargetX(currentInput, p.gridX), TargetY(currentInput, p.gridY))
    ELSE p

\* the input-acceptance step of the PLAYING branch
acceptInput(p, d, currentInput) ==
    IF currentInput # NONE /\ shouldAcceptInput(p)
    THEN LET targetX == TargetX(currentInput, p.gridX)
             targetY == TargetY(currentInput, p.gridY) IN
         IF isWalkable(d, targetX, targetY)
         THEN startMove(p, currentInput, targetX, targetY)
         ELSE p
    ELSE p

\* playingTick accepting the input before it advances the movement
playingTickInputFirst(p, d, currentInput, dt) ==
    updateMovement(acceptInput(updateInputTiming(p, currentInput, dt), d, currentInput), dt)

\* the PLAYING branch of one loop iteration, for one frame delta and one
\* keyboard state
playingTick(p, d, currentInput, dt) ==
    acceptInput(updateInputTiming(updateMovement(p, dt), currentInput, dt), d, currentInput)

Frame(currentInput, dt) ==
    /\ pc = "loop"
    /\ gameState = "PLAYING"
    /\ player' = playingTick(player, dungeon, currentInput, dt)
    /\ camera' = followPlayer(camera, player'.pixelX, player'.pixelY,
                              DUNGEON_WIDTH * TILE_SIZE, DUNGEON_HEIGHT * TILE_SIZE)
    /\ UNCHANGED <<gameState, pc, dungeon, rooms, numRooms, attempts>>

PlayingFrame == \E currentInput \in Inputs, dt \in Deltas : Frame(currentInput, dt)

Next ==
    \/ ClickStartDungeon(RandFew)
    \/ ClickNewDungeon(RandFew)
    \/ GenIterate(RandFew)
    \/ GenFinish
    \/ ClickResume
    \/ ClickMainMenu
    \/ KeyEscape
    \/ PlayingFrame

Spec == Init /\ [][Next]_vars

(***************************************************************************)
(* The generator alone, over every outcome of rand().                      *)
(***************************************************************************)
GenNext ==
    \/ ClickStartDungeon(RandAll)
    \/ ClickNewDungeon(RandAll)
    \/ GenIterate(RandAll)
    \/ GenFinish
    \/ KeyEscape

GenSpec == Init /\ [][GenNext]_vars

\* generateDungeon is straight-line code inside one event handler: once it
\* is entered, each iteration of its loop and its return are executed
GenLiveSpec ==
    /\ Init
    /\ [][GenNext]_vars
    /\ WF_vars(GenIterate(RandAll))
    /\ WF_vars(GenFinish)

(***************************************************************************)
(* One key held on every frame of a fixed positive delta, from the first   *)
(* frame after the dungeon is started.  SDL_Delay(16) ends every loop      *)
(* iteration, so a further frame always comes: weak fairness of the frame. *)
(***************************************************************************)
HeldFrame == Frame(HeldDirection, HeldDelta)

HoldNext ==
    \/ ClickStartDungeon(RandAll)
    \/ GenIterate(RandAll)
    \/ GenFinish
    \/ HeldFrame

HoldSpec ==
    /\ Init
    /\ [][HoldNext]_vars
    /\ WF_vars(HeldFrame)
    /\ WF_vars(GenIterate(RandAll))
    /\ WF_vars(GenFinish)

(***************************************************************************)
(* The camera alone, on a dungeon of the size the source is built with,    *)
(* which is larger than the viewport (the grid of the other specifications *)
(* is smaller than it).  The player is Idle at a cell inside the margin of *)
(* that dungeon or part of the way to a neighbouring cell; the only step   *)
(* is the followPlayer call that ends a PLAYING frame.                     *)
(***************************************************************************)
FullDungeonWidth == 40
FullDungeonHeight == 30
FullDungeonPixelWidth == FullDungeonWidth * TILE_SIZE
FullDungeonPixelHeight == FullDungeonHeight * TILE_SIZE

CamCols == 1 .. (FullDungeonWidth - 2)
CamRows == 1 .. (FullDungeonHeight - 2)
CamMoves == {NONE, RIGHT, DOWN_LEFT}
CamDelta == 5

\* the player snapped to a cell and, for a direction, one updateMovement
\* into the move to the neighbouring cell
CamPlayer(x, y, dir) ==
    LET snapped == setGridPosition(NewPlayer, x, y) IN
    IF dir = NONE THEN snapped
    ELSE updateMovement(startMove(snapped, dir, TargetX(dir, x), TargetY(dir, y)), CamDelta)

CamInit ==
    /\ gameState = "PLAYING"
    /\ pc = "loop"
    /\ dungeon = AllWalls
    /\ rooms = <<>>
    /\ numRooms = 0
    /\ attempts = 0
    /\ \E x \in CamCols, y \in CamRows, dir \in CamMoves : player = CamPlayer(x, y, dir)
    /\ camera = NewCamera

CameraFollow ==
    /\ pc = "loop"
    /\ gameState = "PLAYING"
    /\ camera' = followPlayer(camera, player.pixelX, player.pixelY,
                              FullDungeonPixelWidth, FullDungeonPixelHeight)
    /\ UNCHANGED <<gameState, pc, dungeon, rooms, numRooms, attempts, player>>

CamNext == CameraFollow

CamSpec == CamInit /\ [][CamNext]_vars

(***************************************************************************)
(* Shorthands of the properties                                            *)
(***************************************************************************)
AtFrameBoundary == pc = "loop"
Playing == pc = "loop" /\ gameState = "PLAYING"
SpawnX == rooms[1].x + rooms[1].width \div 2
SpawnY == rooms[1].y + rooms[1].height \div 2

\* deltas the per-call properties are evaluated for: 0, one 20 ms frame, one
\* 50 ms frame, the smallest delta that completes a move from progress 0, and
\* a 200 ms stall
CallDeltas == {0, 2, 5, 13, 20}

(***************************************************************************)
(* C1.  While the player is Transitioning, a PLAYING frame tick never      *)
(* restarts the move: if the tick's updateMovement does not reach Idle,    *)
(* the tick leaves the player Transitioning to the same target cell and    *)
(* does not decrease moveProgress, whatever input is held.                 *)
(***************************************************************************)
C1_TickNeverRestartsMove ==
    Playing /\ player.isMoving =>
        \A currentInput \in Inputs, dt \in CallDeltas :
            LET moved == updateMovement(player, dt)
                after == playingTick(player, dungeon, currentInput, dt) IN
            moved.isMoving =>
                /\ after.isMoving
                /\ after.targetGridX = player.targetGridX
                /\ after.targetGridY = player.targetGridY
                /\ after.moveProgress >= player.moveProgress

(***************************************************************************)
(* C2.  With one direction held on every frame of a fixed positive delta,  *)
(* every started Transition eventually reaches Idle (from where the next   *)
(* step is taken while the destination is walkable).                       *)
(*                                                                         *)
(* Once the latch is set, a held frame raises moveProgress by              *)
(* MOVE_SPEED * HeldDelta and startMove puts it back to 0: the frame maps  *)
(* the player to itself and the Transition lasts forever.                  *)
(***************************************************************************)
C2_HeldKeyKeepsStepping == player.isMoving ~> ~player.isMoving

(***************************************************************************)
(* C3.  The setGridPosition call of the click handlers always leaves the   *)
(* player at the canonical pixel position of the spawn cell, not moving,   *)
(* with target cell = current cell = spawn cell.                           *)
(***************************************************************************)
C3_SnapYieldsIdleAtCell ==
    [][(pc = "gen" /\ pc' = "loop" /\ rooms # <<>>) =>
          /\ player'.pixelX = SpawnX * TILE_SIZE * PixelScale
                                 + ((TILE_SIZE - PLAYER_SIZE) \div 2) * PixelScale
          /\ player'.pixelY = SpawnY * TILE_SIZE * PixelScale
                                 + ((TILE_SIZE - PLAYER_SIZE) \div 2) * PixelScale
          /\ player'.isMoving = FALSE
          /\ player'.gridX = SpawnX /\ player'.gridY = SpawnY
          /\ player'.targetGridX = SpawnX /\ player'.targetGridY = SpawnY]_vars

(***************************************************************************)
(* C4.  After every run of generateDungeon every two distinct rooms of the *)
(* room list are at least 2 cells apart on some axis, and roomOverlaps     *)
(* with padding 2 is false for the pair in both orders.                    *)
(***************************************************************************)
ApartOnSomeAxis(a, b, gap) ==
    \/ a.x + a.width + gap <= b.x
    \/ b.x + b.width + gap <= a.x
    \/ a.y + a.height + gap <= b.y
    \/ b.y + b.height + gap <= a.y

C4_RoomsPairwisePadded ==
    pc = "loop" =>
        \A i, j \in 1 .. Len(rooms) :
            i # j =>
                /\ ApartOnSomeAxis(rooms[i], rooms[j], 2)
                /\ ~roomOverlaps(rooms[i], <<rooms[j]>>, 2)
                /\ ~roomOverlaps(rooms[j], <<rooms[i]>>, 2)

\* a finished run that placed two rooms and rejected a sampled room
C4_Witness == pc = "loop" /\ Len(rooms) >= 2 /\ attempts > Len(rooms)

(***************************************************************************)
(* C5.  After every run of generateDungeon that placed at least 2 rooms,   *)
(* every cell of every room is reachable from every cell of every other    *)
(* room through orthogonally adjacent Floor or Corridor cells.             *)
(***************************************************************************)
OpenCells == {c \in Cols \X Rows : dungeon[c[2]][c[1]] \in {FLOOR, CORRIDOR}}

Adjacent(c, e) ==
    \/ c[1] = e[1] /\ (c[2] = e[2] + 1 \/ e[2] = c[2] + 1)
    \/ c[2] = e[2] /\ (c[1] = e[1] + 1 \/ e[1] = c[1] + 1)

\* the cells reached from the cells of seen, of which frontier are the newest
RECURSIVE ReachableFrom(_, _)
ReachableFrom(seen, frontier) ==
    LET next == {c \in OpenCells \ seen : \E e \in frontier : Adjacent(c, e)} IN
    IF next = {} THEN seen ELSE ReachableFrom(seen \cup next, next)

RoomCells(room) ==
    {c \in Cols \X Rows : /\ c[1] >= room.x /\ c[1] < room.x + room.width
                            /\ c[2] >= room.y /\ c[2] < room.y + room.height}

AllRoomCells == UNION {RoomCells(rooms[i]) : i \in 1 .. Len(rooms)}

\* Adjacency is symmetric, so the cells are reachable from one another when
\* all of them are reachable from one of them.
C5_RoomsConnected ==
    pc = "loop" /\ Len(rooms) >= 2 =>
        /\ AllRoomCells \subseteq OpenCells
        /\ LET first == <<rooms[1].x, rooms[1].y>> IN
           AllRoomCells \subseteq ReachableFrom({first}, {first})

\* a finished run of three rooms, the middle one in line with neither
\* neighbour, so that both corridors have an elbow
C5_Witness ==
    /\ pc = "loop"
    /\ Len(rooms) >= 3
    /\ rooms[1].x # rooms[2].x /\ rooms[1].y # rooms[2].y
    /\ rooms[2].x # rooms[3].x /\ rooms[2].y # rooms[3].y
    /\ \E c \in OpenCells : dungeon[c[2]][c[1]] = CORRIDOR

(***************************************************************************)
(* C6.  At every frame boundary, a player that is not moving stands at the *)
(* canonical pixel position of its grid cell.                              *)
(***************************************************************************)
C6_IdleIsCanonical ==
    AtFrameBoundary /\ ~player.isMoving =>
        /\ player.pixelX = CanonicalPixel(player.gridX)
        /\ player.pixelY = CanonicalPixel(player.gridY)

(***************************************************************************)
(* C7.  While the game is PLAYING, at a frame boundary, a moving player's  *)
(* pixel position is the cubic ease-out interpolation between the          *)
(* canonical positions of its grid cell and of its target cell, evaluated  *)
(* at moveProgress.                                                        *)
(***************************************************************************)
EasedPixel(fromCell, toCell, progress) ==
    LET remaining == ProgressOne - progress
        from == fromCell * TILE_SIZE + (TILE_SIZE - PLAYER_SIZE) \div 2
        to == toCell * TILE_SIZE + (TILE_SIZE - PLAYER_SIZE) \div 2 IN
    from * PixelScale + (to - from) * (PixelScale - remaining * remaining * remaining)

C7_MovingIsEased ==
    Playing /\ player.isMoving =>
        /\ player.pixelX = EasedPixel(player.gridX, player.targetGridX, player.moveProgress)
        /\ player.pixelY = EasedPixel(player.gridY, player.targetGridY, player.moveProgress)

(***************************************************************************)
(* C8.  updateMovement never leaves moveProgress above 1.0, for any        *)
(* non-negative delta: the call in which progress reaches or exceeds 1.0   *)
(* sets it to exactly 1.0, moves the current cell to the target cell, puts *)
(* the pixel position on that cell's canonical position and clears         *)
(* isMoving and movingDirection; calls on an Idle player change nothing.   *)
(***************************************************************************)
C8_UpdateMovementClamps ==
    /\ player.moveProgress <= ProgressOne
    /\ \A dt \in CallDeltas :
        LET after == updateMovement(player, dt) IN
        /\ after.moveProgress <= ProgressOne
        /\ ~player.isMoving => after = player
        /\ player.isMoving /\ player.moveProgress + MOVE_SPEED * dt >= ProgressOne =>
            /\ after.moveProgress = ProgressOne
            /\ after.gridX = player.targetGridX
            /\ after.gridY = player.targetGridY
            /\ after.pixelX = CanonicalPixel(player.targetGridX)
            /\ after.pixelY = CanonicalPixel(player.targetGridY)
            /\ ~after.isMoving
            /\ after.movingDirection = NONE
            /\ \A later \in CallDeltas : updateMovement(after, later) = after

\* a move was completed: the player is Idle with progress exactly 1.0 on a
\* cell other than the spawn cell
C8_Witness ==
    /\ Playing
    /\ ~player.isMoving
    /\ player.moveProgress = ProgressOne
    /\ <<player.gridX, player.gridY>> # <<SpawnX, SpawnY>>
    /\ player.pixelX = CanonicalPixel(player.gridX)

(***************************************************************************)
(* C9.  Player snapped to the spawn cell, the cell to its right walkable,  *)
(* RIGHT held on 3 consecutive PLAYING frames of 0.02 s: frame 1 starts a  *)
(* Transition to the right-hand cell and ends with progress 0, frame 2     *)
(* ends with progress 0.16, frame 3 with progress 0.32; the player is      *)
(* still Transitioning, pixelX lies strictly between the start and the     *)
(* target x, and pixelY is unchanged.                                      *)
(*                                                                         *)
(* Under HoldSpec the key is held from the first frame on, so the k-th     *)
(* frame has just ended when the hold time is (k - 1) * HeldDelta.         *)
(***************************************************************************)
HeldFrameEnded(k) ==
    /\ Playing
    /\ isWalkable(dungeon, SpawnX + 1, SpawnY)
    /\ player.lastInputDirection = HeldDirection
    /\ player.inputHoldTime = (k - 1) * HeldDelta

StrictlyBetweenStartAndTarget ==
    /\ player.pixelX > CanonicalPixel(SpawnX)
    /\ player.pixelX < CanonicalPixel(SpawnX + 1)
    /\ player.pixelY = CanonicalPixel(SpawnY)

AllDirections == NONE .. (UP + DOWN + LEFT + RIGHT)

C10_InputLatch ==
    /\ player.continuousMoveEnabled <=> player.inputHoldTime >= INPUT_BUFFER_TIME
    /\ \A currentInput \in AllDirections, dt \in CallDeltas :
        LET after == updateInputTiming(player, currentInput, dt)
            total == player.inputHoldTime + dt IN
        /\ after.lastInputDirection = currentInput
        /\ currentInput = NONE \/ currentInput # player.lastInputDirection =>
            after.inputHoldTime = 0 /\ ~after.continuousMoveEnabled
        /\ currentInput # NONE /\ currentInput = player.lastInputDirection =>
            /\ total <= MaxHold => after.inputHoldTime = total
            /\ total >= INPUT_BUFFER_TIME => after.continuousMoveEnabled
            /\ player.continuousMoveEnabled => after.continuousMoveEnabled
            /\ total < INPUT_BUFFER_TIME => ~after.continuousMoveEnabled

\* the hold time has reached the threshold exactly and the latch is set
C10_Witness ==
    /\ Playing
    /\ player.lastInputDirection # NONE
    /\ player.inputHoldTime = INPUT_BUFFER_TIME
    /\ player.continuousMoveEnabled

(***************************************************************************)
(* C11.  The setGridPosition call that follows a (re)generation leaves the *)
(* player with lastInputDirection = NONE, inputHoldTime = 0,               *)
(* continuousMoveEnabled = false, movingDirection = NONE and               *)
(* moveProgress = 0, whatever the player's state was before.               *)
(***************************************************************************)
C11_SnapResetsBookkeeping ==
    [][(pc = "gen" /\ pc' = "loop" /\ rooms # <<>>) =>
          /\ player'.lastInputDirection = NONE
          /\ player'.inputHoldTime = 0
          /\ player'.continuousMoveEnabled = FALSE
          /\ player'.movingDirection = NONE
          /\ player'.moveProgress = 0]_vars

(***************************************************************************)
(* C12.  An Idle player in a PLAYING frame whose held direction addresses  *)
(* a cell that is Wall or outside the grid stays as it is, with or without *)
(* the continuous-move latch: the tick starts no move, and isMoving, grid  *)
(* cell, target cell, pixel position and moveProgress keep their values.   *)
(* The player after the tick is again Idle at the same cell, so the same   *)
(* holds for every later frame with that direction held.                   *)
(***************************************************************************)
C12_BlockedMoveNeverStarts ==
    Playing /\ ~player.isMoving =>
        \A dir \in AllDirections \ {NONE}, dt \in CallDeltas :
            ~isWalkable(dungeon, TargetX(dir, player.gridX), TargetY(dir, player.gridY)) =>
                LET after == playingTick(player, dungeon, dir, dt) IN
                /\ ~after.isMoving
                /\ after.gridX = player.gridX /\ after.gridY = player.gridY
                /\ after.targetGridX = player.targetGridX
                /\ after.targetGridY = player.targetGridY
                /\ after.pixelX = player.pixelX /\ after.pixelY = player.pixelY
                /\ after.moveProgress = player.moveProgress

\* RIGHT has been held against a wall until the latch was set, and the player
\* is still Idle
C12_Witness ==
    /\ Playing
    /\ ~player.isMoving
    /\ player.lastInputDirection = RIGHT
    /\ player.continuousMoveEnabled
    /\ ~isWalkable(dungeon, TargetX(RIGHT, player.gridX), TargetY(RIGHT, player.gridY))

(***************************************************************************)
(* C13.  For every coordinate pair, isWalkable is false when x or y lies   *)
(* outside [0,W)x[0,H), also on a grid that has no cell to read, and       *)
(* otherwise it is true exactly when the cell is Floor or Corridor.        *)
(***************************************************************************)
ProbeXs == (0 - 2) .. (DUNGEON_WIDTH + 1)
ProbeYs == (0 - 2) .. (DUNGEON_HEIGHT + 1)

C13_IsWalkable ==
    \A x \in ProbeXs, y \in ProbeYs :
        IF x \in Cols /\ y \in Rows
        THEN isWalkable(dungeon, x, y) <=> dungeon[y][x] \in {FLOOR, CORRIDOR}
        ELSE ~isWalkable(dungeon, x, y) /\ ~isWalkable(<< >>, x, y)

\* a generated grid that holds cells of all three kinds
C13_Witness ==
    /\ pc = "loop"
    /\ \E x \in Cols, y \in Rows : dungeon[y][x] = CORRIDOR
    /\ \E x \in Cols, y \in Rows : dungeon[y][x] = FLOOR
    /\ \E x \in Cols, y \in Rows : dungeon[y][x] = WALL

(***************************************************************************)
(* C14.  After every run of generateDungeon the sampled target is between  *)
(* the smallest and the largest target, and the number of placed rooms is  *)
(* between 1 and the sampled target; it is below the target only when the  *)
(* attempts were used up.                                                  *)
(***************************************************************************)
MaxRooms == MinRooms + RoomsSpread - 1
GenerationHasRun == pc = "loop" /\ numRooms # 0

C14_RoomCount ==
    GenerationHasRun =>
        /\ numRooms \in MinRooms .. MaxRooms
        /\ 1 <= Len(rooms) /\ Len(rooms) <= numRooms
        /\ attempts < MaxAttempts => Len(rooms) = numRooms

\* C14 as stated: the number of placed rooms is between the smallest and
\* the largest target
C14_AsClaimed ==
    GenerationHasRun => Len(rooms) \in MinRooms .. MaxRooms

\* a run that used up its attempts with fewer rooms than the smallest target
C14_Witness ==
    /\ GenerationHasRun
    /\ Len(rooms) < MinRooms
    /\ attempts = MaxAttempts

(***************************************************************************)
(* C15.  generateDungeon terminates for every outcome of rand(): the       *)
(* attempt count never exceeds the cap, an iteration of the placement loop *)
(* runs only while the room count is below the target and the attempt      *)
(* count below the cap, each iteration adds exactly one attempt and at     *)
(* most one room, the loop is left exactly when the room count equals the  *)
(* target or the attempt count equals the cap, and every generation that   *)
(* was begun returns to the event loop.                                    *)
(***************************************************************************)
C15_GenerationTerminates ==
    /\ [](attempts <= MaxAttempts /\ Len(rooms) <= attempts)
    /\ [][(pc = "gen" /\ pc' = "gen") =>
             /\ Len(rooms) < numRooms /\ attempts < MaxAttempts
             /\ attempts' = attempts + 1
             /\ Len(rooms') \in {Len(rooms), Len(rooms) + 1}]_vars
    /\ [][(pc = "gen" /\ pc' = "loop") =>
             /\ Len(rooms) = numRooms \/ attempts = MaxAttempts
             /\ gameState' = "PLAYING"
             /\ rooms' = rooms /\ attempts' = attempts]_vars
    /\ (pc = "gen") ~> (pc = "loop")

\* the loop is about to be left because the attempts are used up, with
\* fewer rooms than the target
C15_Witness ==
    /\ pc = "gen"
    /\ attempts = MaxAttempts
    /\ Len(rooms) < numRooms

(***************************************************************************)
(* C16.  At every step of the generation and after it, every cell inside   *)
(* a placed room is Floor, and every Floor cell of the grid lies inside a  *)
(* placed room: the corridors, which start and end at room centres, leave  *)
(* the cells of the rooms as they are.                                     *)
(***************************************************************************)
InsideRoom(x, y, room) ==
    /\ x >= room.x /\ x < room.x + room.width
    /\ y >= room.y /\ y < room.y + room.height

C16_RoomsAreTheFloor ==
    \A x \in Cols, y \in Rows :
        dungeon[y][x] = FLOOR <=> \E i \in 1 .. Len(rooms) : InsideRoom(x, y, rooms[i])

\* in the middle of a generation, a corridor has been carved up to a room
C16_Witness ==
    /\ pc = "gen"
    /\ Len(rooms) >= 2
    /\ \E c \in Cols \X Rows, e \in AllRoomCells :
        dungeon[c[2]][c[1]] = CORRIDOR /\ Adjacent(c, e)

(***************************************************************************)
(* C17.  Every placed room keeps a margin of at least one cell to all four *)
(* sides of the grid (x >= 1, y >= 1, x + width <= W - 1,                  *)
(* y + height <= H - 1), and every cell on the outer border of the grid is *)
(* Wall.                                                                   *)
(***************************************************************************)
BorderCells ==
    {c \in Cols \X Rows : \/ c[1] = 0 \/ c[1] = DUNGEON_WIDTH - 1
                          \/ c[2] = 0 \/ c[2] = DUNGEON_HEIGHT - 1}

C17_RoomsInsideMargin ==
    /\ \A i \in 1 .. Len(rooms) :
        /\ rooms[i].x >= 1
        /\ rooms[i].y >= 1
        /\ rooms[i].x + rooms[i].width <= DUNGEON_WIDTH - 1
        /\ rooms[i].y + rooms[i].height <= DUNGEON_HEIGHT - 1
    /\ \A c \in BorderCells : dungeon[c[2]][c[1]] = WALL

\* a finished run with a room at the smallest and a room at the largest
\* position that can be sampled, on each axis
C17_Witness ==
    /\ GenerationHasRun
    /\ \E i, j \in 1 .. Len(rooms) :
        /\ rooms[i].x = 1
        /\ rooms[j].x + rooms[j].width = DUNGEON_WIDTH - 2
    /\ \E i, j \in 1 .. Len(rooms) :
        /\ rooms[i].y = 1
        /\ rooms[j].y + rooms[j].height = DUNGEON_HEIGHT - 2

(***************************************************************************)
(* C18.  For an Idle player in a PLAYING frame and a diagonal direction    *)
(* whose diagonal cell is Floor or Corridor, whatever the two cells beside *)
(* the diagonal are: the tick starts one Transition in that direction      *)
(* whose target is the diagonal cell, the grid cell being unchanged until  *)
(* the move completes, and updateMovement with a delta that completes the  *)
(* move leaves the player Idle at the diagonal cell, both coordinates      *)
(* changed by one.                                                         *)
(***************************************************************************)
Diagonals == {UP_LEFT, UP_RIGHT, DOWN_LEFT, DOWN_RIGHT}
DiagonalX(dir, x) == IF dir \in {UP_LEFT, DOWN_LEFT} THEN x - 1 ELSE x + 1
DiagonalY(dir, y) == IF dir \in {UP_LEFT, UP_RIGHT} THEN y - 1 ELSE y + 1
CompletingDelta == ProgressOne \div MOVE_SPEED + 1

C18_DiagonalMove ==
    Playing /\ ~player.isMoving =>
        \A dir \in Diagonals, dt \in CallDeltas :
            LET destX == DiagonalX(dir, player.gridX)
                destY == DiagonalY(dir, player.gridY)
                started == playingTick(player, dungeon, dir, dt)
                completed == updateMovement(started, CompletingDelta) IN
            destX \in Cols /\ destY \in Rows /\ dungeon[destY][destX] # WALL =>
                /\ started.isMoving
                /\ started.movingDirection = dir
                /\ started.targetGridX = destX /\ started.targetGridY = destY
                /\ started.gridX = player.gridX /\ started.gridY = player.gridY
                /\ started.moveProgress = 0
                /\ ~completed.isMoving
                /\ completed.gridX = destX /\ completed.gridY = destY
                /\ completed.gridX # player.gridX /\ completed.gridY # player.gridY

\* an UP|LEFT move to the diagonal cell is under way although the cell
\* above the player is a wall
C18_Witness ==
    /\ Playing
    /\ player.isMoving
    /\ player.movingDirection = UP_LEFT
    /\ player.targetGridX = player.gridX - 1
    /\ player.targetGridY = player.gridY - 1
    /\ player.moveProgress > 0
    /\ dungeon[player.gridY - 1][player.gridX] = WALL

(***************************************************************************)
(* C19.  For a dungeon at least as large as the viewport on both axes and  *)
(* every player pixel position, the offset followPlayer computes satisfies *)
(* 0 <= x <= dungeonPixelWidth - width and                                 *)
(* 0 <= y <= dungeonPixelHeight - height, and on each axis it is the       *)
(* player-centred offset (player + PLAYER_SIZE/2 - width/2) whenever that  *)
(* value is in the range; the camera holds that offset once followPlayer   *)
(* has been called.                                                        *)
(***************************************************************************)
DungeonPixelWidths == {SCREEN_WIDTH, SCREEN_WIDTH + TILE_SIZE, FullDungeonPixelWidth}
DungeonPixelHeights == {SCREEN_HEIGHT, SCREEN_HEIGHT + TILE_SIZE, FullDungeonPixelHeight}

PlayerCentredX == player.pixelX + (PLAYER_SIZE \div 2) * PixelScale - (SCREEN_WIDTH \div 2) * PixelScale
PlayerCentredY == player.pixelY + (PLAYER_SIZE \div 2) * PixelScale - (SCREEN_HEIGHT \div 2) * PixelScale

C19_CameraClamped ==
    /\ \A dungeonPixelWidth \in DungeonPixelWidths, dungeonPixelHeight \in DungeonPixelHeights :
        LET offset == followPlayer(camera, player.pixelX, player.pixelY,
                                   dungeonPixelWidth, dungeonPixelHeight)
            farX == (dungeonPixelWidth - SCREEN_WIDTH) * PixelScale
            farY == (dungeonPixelHeight - SCREEN_HEIGHT) * PixelScale IN
        /\ 0 <= offset.x /\ offset.x <= farX
        /\ 0 <= offset.y /\ offset.y <= farY
        /\ 0 <= PlayerCentredX /\ PlayerCentredX <= farX => offset.x = PlayerCentredX
        /\ 0 <= PlayerCentredY /\ PlayerCentredY <= farY => offset.y = PlayerCentredY
    /\ camera # NewCamera =>
        camera = followPlayer(camera, player.pixelX, player.pixelY,
                              FullDungeonPixelWidth, FullDungeonPixelHeight)

\* the camera has followed a player that is part of the way to the next
\* cell: the offset is clamped to the far edge on x and player-centred on y
C19_Witness ==
    /\ player.isMoving
    /\ camera.x = (FullDungeonPixelWidth - SCREEN_WIDTH) * PixelScale
    /\ PlayerCentredX > camera.x
    /\ camera.y = PlayerCentredY
    /\ camera.y > 0

(***************************************************************************)
(* C20.  Opposing direction bits cancel: with UP and DOWN both set the     *)
(* target row is the current row, with LEFT and RIGHT both set the target  *)
(* column is the current column.  The cell of an Idle player in a PLAYING  *)
(* frame is walkable, so for a direction made of opposing bits only the    *)
(* tick starts a Transition whose target cell is the current cell, and     *)
(* updateMovement with a delta that completes the move leaves the player   *)
(* Idle at the same cell.                                                  *)
(***************************************************************************)
OnlyOpposing == {UP + DOWN, LEFT + RIGHT, UP + DOWN + LEFT + RIGHT}

C20_OpposingBitsCancel ==
    /\ \A dir \in AllDirections :
        /\ HasBit(dir, UP) /\ HasBit(dir, DOWN) =>
            TargetY(dir, player.gridY) = player.gridY
        /\ HasBit(dir, LEFT) /\ HasBit(dir, RIGHT) =>
            TargetX(dir, player.gridX) = player.gridX
    /\ Playing /\ ~player.isMoving =>
        /\ dungeon[player.gridY][player.gridX] # WALL
        /\ \A dir \in OnlyOpposing, dt \in CallDeltas :
            LET started == playingTick(player, dungeon, dir, dt)
                completed == updateMovement(started, CompletingDelta) IN
            /\ started.isMoving
            /\ started.movingDirection = dir
            /\ started.targetGridX = player.gridX /\ started.targetGridY = player.gridY
            /\ started.gridX = player.gridX /\ started.gridY = player.gridY
            /\ ~completed.isMoving
            /\ completed.gridX = player.gridX /\ completed.gridY = player.gridY

\* a move started by UP|DOWN is under way and its target is the player's
\* own cell
C20_Witness ==
    /\ Playing
    /\ player.isMoving
    /\ player.movingDirection = UP_DOWN
    /\ player.lastInputDirection = UP_DOWN
    /\ player.moveProgress > 0
    /\ player.targetGridX = player.gridX /\ player.targetGridY = player.gridY
    /\ dungeon[player.gridY][player.gridX] # WALL

(***************************************************************************)
(* C21.  At every frame boundary at which the game is PLAYING or PAUSED,   *)
(* whatever frames, pauses, resumes, returns to the main menu and          *)
(* regenerations came before (a regeneration in the middle of a Transition *)
(* included), the player's grid cell and its target cell are cells of the  *)
(* grid that are not Wall.                                                 *)
(***************************************************************************)
OpenCell(x, y) == x \in Cols /\ y \in Rows /\ dungeon[y][x] # WALL

C21_PlayerOnWalkableCells ==
    pc = "loop" /\ gameState \in {"PLAYING", "PAUSED"} =>
        /\ OpenCell(player.gridX, player.gridY)
        /\ OpenCell(player.targetGridX, player.targetGridY)

\* a move to the right that was under way when the dungeon was regenerated:
\* the player was snapped to the spawn cell of a dungeon with another spawn
\* cell, still moving, its target now its own cell
C21_Witness ==
    /\ Playing
    /\ player.isMoving
    /\ player.movingDirection = RIGHT
    /\ player.targetGridX = player.gridX /\ player.targetGridY = player.gridY
    /\ player.gridX = SpawnX /\ player.gridY = SpawnY
    /\ SpawnX > DUNGEON_WIDTH \div 2

(***************************************************************************)
(* C22.  Every run of generateDungeon places a room: the first iteration   *)
(* of the placement loop tests its room against an empty list and appends  *)
(* it, so from the first attempt on the room list is not empty, the run    *)
(* never returns with an empty list, and the click handler takes its spawn *)
(* branch, which puts the player on the centre cell of the first room.     *)
(***************************************************************************)
C22_FirstRoomAlwaysPlaced ==
    /\ [](attempts >= 1 => rooms # <<>>)
    /\ [][(pc = "gen" /\ attempts = 0 /\ attempts' = 1) =>
             /\ rooms = <<>>
             /\ Len(rooms') = 1
             /\ ~roomOverlaps(rooms'[1], rooms, 2)]_vars
    /\ [][(pc = "gen" /\ pc' = "loop") =>
             /\ rooms # <<>>
             /\ player'.gridX = SpawnX /\ player'.gridY = SpawnY]_vars

\* a regeneration from the pause menu has made its first attempt, and the
\* room of that attempt is in the list
C22_Witness ==
    /\ pc = "gen"
    /\ gameState = "PAUSED"
    /\ attempts = 1
    /\ Len(rooms) = 1

====
